---------------------------- MODULE Spec2Model ----------------------------
(***************************************************************************)
(* MeetScribe: the chunk-ingestion and finalization pipeline of one        *)
(* recording session (backend/app/main.py, backend/app/worker.py).         *)
(*                                                                         *)
(* The Meeting row and its MeetingChunk rows are the shared state.  The    *)
(* HTTP handlers run as one step each.  A Celery task is suspended only    *)
(* while it waits for the transcription or the summarization service, so   *)
(* a transcription task is at most three steps (transcribe; persist, count *)
(* and rebuild; summarise and commit) and every other caller of            *)
(* finalize_meeting_processing at most two (rebuild; summarise and         *)
(* commit).  A finalization that does not reach the summarization service  *)
(* (empty or too brief transcript) ends in the step that starts it.        *)
(* ConcurrentPollSpec serves the status endpoint, a synchronous handler,    *)
(* by several threads: a request is one step up to its test for the        *)
(* summary-only task and one step from the call of .delay to its commit.   *)
(* MissingFileSpec runs the pipeline on a disk that can lose the audio     *)
(* file of a chunk record, the case the sweep tests with exists().         *)
(*                                                                         *)
(* Nullable columns are options: <<>> is NULL and <<v>> is the value v.    *)
(* A string is a sequence of tokens; the token " " is one space, any other *)
(* token is a run of non-space characters.                                 *)
(***************************************************************************)
EXTENDS Integers, Sequences, FiniteSets, Bags, TLC

VARIABLES
    expected_chunks,      \* Meeting.expected_chunks  (option of Nat)
    received_chunks,      \* Meeting.received_chunks
    final_received,       \* Meeting.final_received
    transcript_text,      \* Meeting.transcript_text  (option of string)
    summary_markdown,     \* Meeting.summary_markdown (option of summary)
    done,                 \* Meeting.done
    summary_task_queued,  \* Meeting.summary_task_queued
    idle,                 \* utcnow() - Meeting.last_activity, in seconds
    chunks,               \* MeetingChunk rows: chunk_index -> text (option of string)
    files,                \* data/audio/<meeting>/chunk_NNN.webm: chunk_index -> bytes
    tasks,                \* Celery tasks queued or running (a bag)
    resumed,              \* chunk_index of the last upload that found done set (option)
    raced,                \* chunk_index of the last real upload handled while a
                          \* finalization was between its read and its commit (option)
    lost,                 \* number of tasks lost so far to a worker crash
    response,             \* the response to the last HTTP request
    feedback,             \* Feedback rows (a bag)
    other_files,          \* the chunk files under data/audio/<id> of other meeting ids
    polling               \* status requests between their test and their commit

vars == <<expected_chunks, received_chunks, final_received, transcript_text,
          summary_markdown, done, summary_task_queued, idle, chunks, files,
          tasks, resumed, raced, lost, response, feedback, other_files, polling>>

\* what the Celery tasks, the sweep and the clock never touch
http == <<response, feedback, other_files, polling>>

meeting == <<expected_chunks, received_chunks, final_received, transcript_text,
             summary_markdown, done, summary_task_queued, idle>>

-----------------------------------------------------------------------------
(* Bounds *)

MaxIndex == 2
MaxUploads == 2
MaxTasks == 2
MaxLost == 1
PresetExpected == 3
ChunkWords == 30

\* the chunk indices of the recorded segments
Indices == 0 .. MaxIndex
\* the chunk index the client gives to a signalling chunk
SignalIndex == MaxIndex + 1

-----------------------------------------------------------------------------
(* Options and strings *)

Null == <<>>
Some(v) == <<v>>
IsNull(o) == o = <<>>
Val(o) == o[1]

SP == " "
PLACEHOLDER == "[...]"

RECURSIVE join(_)
\* " ".join(parts): the parts separated by one space each
join(parts) ==
    IF parts = <<>> THEN <<>>
    ELSE IF Len(parts) = 1 THEN parts[1]
    ELSE parts[1] \o <<SP>> \o join(Tail(parts))

RECURSIVE lstrip(_)
lstrip(s) == IF s # <<>> /\ Head(s) = SP THEN lstrip(Tail(s)) ELSE s

RECURSIVE rstrip(_)
rstrip(s) ==
    IF s # <<>> /\ s[Len(s)] = SP THEN rstrip(SubSeq(s, 1, Len(s) - 1)) ELSE s

\* str.strip()
strip(s) == rstrip(lstrip(s))

\* len(s.split()): every token of the model that is not a space stands for
\* ChunkWords words of speech
word_count(s) == ChunkWords * Cardinality({k \in 1 .. Len(s) : s[k] # SP})

-----------------------------------------------------------------------------
(* Audio and the transcription service *)

TINY == "tiny"
NOFILE == "none"

Take1 == <<"a0", "a1", "a2", "a3", "a4", "a5">>
Take2 == <<"b0", "b1", "b2", "b3", "b4", "b5">>
Said1 == <<"w0", "w1", "w2", "w3", "w4", "w5">>
Said2 == <<"v0", "v1", "v2", "v3", "v4", "v5">>

\* the bytes the recorder produces for segment i, take v
Audio(i, v) == IF v = 1 THEN Take1[i + 1] ELSE Take2[i + 1]

\* what is said in the audio, as the service returns it when it succeeds
Speech(a) ==
    LET k == CHOOSE k \in 1 .. Len(Take1) : Take1[k] = a \/ Take2[k] = a
    IN  IF Take1[k] = a THEN <<Said1[k]>> ELSE <<Said2[k]>>

\* chunk_path.stat().st_size
SizeBytes(content) == IF content = TINY THEN 40 ELSE 4096

\* size_kb < 0.1 with size_kb = st_size / 1024
IsSignalOnly(content) == SizeBytes(content) * 10 < 1024

\* transcribe_webm_chunk_in_worker: the stripped text of the file, or ""
\* when anything raised inside (the except clause returns "")
transcribe_webm_chunk_in_worker(content) ==
    IF content = TINY \/ content = NOFILE THEN {<<>>}
    ELSE {Speech(content), <<>>}

-----------------------------------------------------------------------------
(* Summaries *)

TOO_BRIEF == "Recording is too brief to generate a meaningful summary."
SUMMARY_FAILED == "Error: Summary generation failed."
TRANSCRIPT_EMPTY == "Error: Transcript was empty, summary could not be generated."
MIN_SUMMARY_WORDS == 25

\* the text the summarization service returns for a transcript
ServiceSummary(full_transcript) == <<"#### Summary">> \o full_transcript

\* summarise_transcript_in_worker: the possible return values
summarise_transcript_in_worker(full_transcript) ==
    IF full_transcript = <<>> \/ word_count(strip(full_transcript)) < MIN_SUMMARY_WORDS
    THEN {<<TOO_BRIEF>>}
    ELSE {ServiceSummary(full_transcript), <<SUMMARY_FAILED>>}

-----------------------------------------------------------------------------
(* Queries over the MeetingChunk rows *)

RECURSIVE TextsFrom(_, _)
\* the non-null texts of the rows with chunk_index >= i, ordered by chunk_index
TextsFrom(rows, i) ==
    IF i > MaxIndex THEN <<>>
    ELSE IF i \in DOMAIN rows /\ ~IsNull(rows[i])
         THEN <<Val(rows[i])>> \o TextsFrom(rows, i + 1)
         ELSE TextsFrom(rows, i + 1)

\* select(MeetingChunk.text).where(text.is_not(None)).order_by(chunk_index)
NonNullTexts(rows) == TextsFrom(rows, 0)

\* select(func.count(MeetingChunk.id)).where(text.is_not(None))
transcribed_count(rows) == Cardinality({i \in DOMAIN rows : ~IsNull(rows[i])})

\* select(MeetingChunk).where(text.is_(None))
unprocessed_chunks(rows) == {i \in DOMAIN rows : IsNull(rows[i])}

\* rebuild_full_transcript: " ".join(text for text in chunks if text).strip()
rebuild_full_transcript(rows) ==
    strip(join(SelectSeq(NonNullTexts(rows), LAMBDA t : t # <<>>)))

RECURSIVE display_texts_until_gap(_, _, _)
\* the loop, were it to break at the first chunk that is missing or pending
display_texts_until_gap(rows, i, n) ==
    IF i >= n \/ i \notin DOMAIN rows \/ IsNull(rows[i]) THEN <<>>
    ELSE <<Val(rows[i])>> \o display_texts_until_gap(rows, i + 1, n)

RECURSIVE display_texts(_, _, _)
\* the loop of _build_live_transcript over range(i, n)
display_texts(rows, i, n) ==
    IF i >= n THEN <<>>
    ELSE <<IF i \in DOMAIN rows /\ ~IsNull(rows[i]) THEN Val(rows[i])
           ELSE <<PLACEHOLDER>>>> \o display_texts(rows, i + 1, n)

\* _build_live_transcript
build_live_transcript(rows, received, final, expected) ==
    LET max_chunk_count == IF final /\ ~IsNull(expected) THEN Val(expected)
                           ELSE received
    IN  strip(join(display_texts(rows, 0, max_chunk_count)))

-----------------------------------------------------------------------------
(* The task queue *)

\* a Celery message or a task a worker is executing.  pc: "queued" (not yet
\* started), "transcribed" (transcribe_webm_chunk_in_worker has returned
\* local), "summarise" (finalize_meeting_processing has rebuilt the transcript
\* local and is waiting for the summarization service)
Task(kind, chunk_index, pc, local) ==
    [kind |-> kind, chunk_index |-> chunk_index, pc |-> pc, local |-> local]

\* process_transcription_and_summary.delay(meeting, chunk_index, chunk_path)
TranscriptionTask(chunk_index) == Task("transcription", chunk_index, "queued", <<>>)

\* generate_summary_only.delay(meeting)
SummaryTask == Task("summary_only", 0, "queued", <<>>)

\* a caller inside finalize_meeting_processing, between the rebuild and the commit
Finalizing(kind, chunk_index, final_transcript) ==
    Task(kind, chunk_index, "summarise", final_transcript)

\* room in the broker and the worker pool for the tasks of the bag new
CanEnqueue(new) == BagCardinality(tasks (+) new) <= MaxTasks

Finish(t) == tasks (-) SetToBag({t})
Replace(t, u) == (tasks (-) SetToBag({t})) (+) SetToBag({u})

-----------------------------------------------------------------------------
(* HTTP requests and responses *)

\* the id of the session, and a uuid4 that names no Meeting row
MEETING == "m"
UNKNOWN == "x"
MeetingIds == {MEETING, UNKNOWN}

\* db.get(Meeting, meeting_id) returns a row
found(meeting_id) == meeting_id = MEETING

CREATED == [status_code |-> 201, detail |-> ""]
OK == [status_code |-> 200, detail |-> ""]
NO_CONTENT == [status_code |-> 204, detail |-> ""]
\* HTTPException(404, "Meeting not found")
NOT_FOUND == [status_code |-> 404, detail |-> "Meeting not found"]

-----------------------------------------------------------------------------
(* The state after POST /api/meetings *)

Init ==
    /\ expected_chunks \in {Null, Some(PresetExpected)}
    /\ received_chunks = 0
    /\ final_received = FALSE
    /\ transcript_text = Null
    /\ summary_markdown = Null
    /\ done = FALSE
    /\ summary_task_queued = FALSE
    /\ idle = 0
    /\ chunks = <<>>
    /\ files = [i \in Indices \cup {SignalIndex} |-> NOFILE]
    /\ tasks = EmptyBag
    /\ resumed = Null
    /\ raced = Null
    /\ lost = 0
    /\ response = CREATED
    /\ feedback = EmptyBag
    /\ other_files = {}
    /\ polling = 0

-----------------------------------------------------------------------------
(* POST /api/chunks *)

\* the signalling branch, were it to assign expected_chunks on every final chunk
upload_signal_overwriting(is_final) ==
    /\ final_received' = (final_received \/ is_final)
    /\ expected_chunks' = IF is_final THEN Some(received_chunks) ELSE expected_chunks
    /\ UNCHANGED <<received_chunks, transcript_text, summary_markdown, done,
                   summary_task_queued, idle, chunks, tasks, resumed>>

\* the signalling branch, were it to count as activity of the session
upload_signal_touching_activity(is_final) ==
    /\ final_received' = (final_received \/ is_final)
    /\ expected_chunks' = IF is_final /\ IsNull(expected_chunks)
                          THEN Some(received_chunks) ELSE expected_chunks
    /\ idle' = 0
    /\ UNCHANGED <<received_chunks, transcript_text, summary_markdown, done,
                   summary_task_queued, chunks, tasks, resumed>>

\* the signalling branch (size_kb < 0.1)
upload_signal(is_final) ==
    /\ final_received' = (final_received \/ is_final)
    /\ expected_chunks' = IF is_final /\ IsNull(expected_chunks)
                          THEN Some(received_chunks) ELSE expected_chunks
    /\ UNCHANGED <<received_chunks, transcript_text, summary_markdown, done,
                   summary_task_queued, idle, chunks, tasks, resumed>>

\* the branch, were it to reset the summary of a done session and leave done
upload_real_leaving_done(chunk_index, is_final) ==
    /\ received_chunks < MaxUploads
    /\ CanEnqueue(SetToBag({TranscriptionTask(chunk_index)}))
    /\ chunks' = [i \in DOMAIN chunks \cup {chunk_index} |->
                    IF i = chunk_index THEN Null ELSE chunks[i]]
    /\ received_chunks' = received_chunks + 1
    /\ idle' = 0
    /\ summary_markdown' = IF done THEN Null ELSE summary_markdown
    /\ resumed' = IF done THEN Some(chunk_index) ELSE resumed
    /\ final_received' = (final_received \/ is_final)
    /\ expected_chunks' =
         IF is_final /\ (IsNull(expected_chunks) \/ Val(expected_chunks) < received_chunks')
         THEN Some(received_chunks') ELSE expected_chunks
    /\ tasks' = tasks (+) SetToBag({TranscriptionTask(chunk_index)})
    /\ UNCHANGED <<transcript_text, summary_task_queued, done>>

\* the branch, were it to leave the text of an existing record as it is
upload_real_keeping_text(chunk_index, is_final) ==
    /\ received_chunks < MaxUploads
    /\ CanEnqueue(SetToBag({TranscriptionTask(chunk_index)}))
    /\ chunks' = [i \in DOMAIN chunks \cup {chunk_index} |->
                    IF i \in DOMAIN chunks THEN chunks[i] ELSE Null]
    /\ received_chunks' = received_chunks + 1
    /\ idle' = 0
    /\ done' = FALSE
    /\ summary_markdown' = IF done THEN Null ELSE summary_markdown
    /\ resumed' = IF done THEN Some(chunk_index) ELSE resumed
    /\ final_received' = (final_received \/ is_final)
    /\ expected_chunks' =
         IF is_final /\ (IsNull(expected_chunks) \/ Val(expected_chunks) < received_chunks')
         THEN Some(received_chunks') ELSE expected_chunks
    /\ tasks' = tasks (+) SetToBag({TranscriptionTask(chunk_index)})
    /\ UNCHANGED <<transcript_text, summary_task_queued>>

\* the branch, were it to queue a task only for an index without a record
upload_real_queueing_new_only(chunk_index, is_final) ==
    /\ received_chunks < MaxUploads
    /\ CanEnqueue(SetToBag({TranscriptionTask(chunk_index)}))
    /\ chunks' = [i \in DOMAIN chunks \cup {chunk_index} |->
                    IF i = chunk_index THEN Null ELSE chunks[i]]
    /\ received_chunks' = received_chunks + 1
    /\ idle' = 0
    /\ done' = FALSE
    /\ summary_markdown' = IF done THEN Null ELSE summary_markdown
    /\ resumed' = IF done THEN Some(chunk_index) ELSE resumed
    /\ final_received' = (final_received \/ is_final)
    /\ expected_chunks' =
         IF is_final /\ (IsNull(expected_chunks) \/ Val(expected_chunks) < received_chunks')
         THEN Some(received_chunks') ELSE expected_chunks
    /\ tasks' = IF chunk_index \in DOMAIN chunks THEN tasks
                ELSE tasks (+) SetToBag({TranscriptionTask(chunk_index)})
    /\ UNCHANGED <<transcript_text, summary_task_queued>>

\* a chunk that is stored, counted and queued for transcription
upload_real(chunk_index, is_final) ==
    /\ received_chunks < MaxUploads
    /\ CanEnqueue(SetToBag({TranscriptionTask(chunk_index)}))
    /\ chunks' = [i \in DOMAIN chunks \cup {chunk_index} |->
                    IF i = chunk_index THEN Null ELSE chunks[i]]
    /\ received_chunks' = received_chunks + 1
    /\ idle' = 0
    /\ done' = FALSE
    /\ summary_markdown' = IF done THEN Null ELSE summary_markdown
    /\ resumed' = IF done THEN Some(chunk_index) ELSE resumed
    /\ final_received' = (final_received \/ is_final)
    /\ expected_chunks' =
         IF is_final /\ (IsNull(expected_chunks) \/ Val(expected_chunks) < received_chunks')
         THEN Some(received_chunks') ELSE expected_chunks
    /\ tasks' = tasks (+) SetToBag({TranscriptionTask(chunk_index)})
    /\ UNCHANGED <<transcript_text, summary_task_queued>>

\* a finalization routine has rebuilt the transcript and has not committed yet
finalization_in_progress == \E t \in BagToSet(tasks) : t.pc = "summarise"

upload_chunk(chunk_index, content, is_final) ==
    /\ files' = [files EXCEPT ![chunk_index] = content]
    /\ IF IsSignalOnly(content) THEN upload_signal(is_final)
       ELSE upload_real(chunk_index, is_final)
    /\ response' = OK
    /\ raced' = IF ~IsSignalOnly(content) /\ finalization_in_progress
               THEN Some(chunk_index) ELSE raced
    /\ UNCHANGED <<lost, feedback, other_files, polling>>

-----------------------------------------------------------------------------
(* GET /api/meetings/{mid} *)

INACTIVITY_TIMEOUT_SECONDS == 120

\* the auto-finalization test of get_meeting
poll_auto_finalizes ==
    /\ ~final_received
    /\ IsNull(expected_chunks)
    /\ idle > INACTIVITY_TIMEOUT_SECONDS

\* final_received and expected_chunks as the handler leaves them
poll_final == final_received \/ poll_auto_finalizes
poll_expected == IF poll_auto_finalizes THEN Some(received_chunks) ELSE expected_chunks

\* the test that queues generate_summary_only, on the row as it is after the
\* auto-finalization
poll_triggers_summary ==
    /\ ~done
    /\ ~summary_task_queued
    /\ IsNull(summary_markdown)
    /\ poll_final
    /\ ~IsNull(poll_expected) /\ Val(poll_expected) # 0
    /\ transcribed_count(chunks) >= Val(poll_expected)

\* data["transcript_text"] of the response
status_transcript ==
    IF done THEN transcript_text
    ELSE Some(build_live_transcript(chunks, received_chunks, poll_final, poll_expected))

\* the handler, were it to count the poll as activity of the session
get_meeting_touching_activity ==
    /\ final_received' = poll_final
    /\ expected_chunks' = poll_expected
    /\ IF poll_triggers_summary
       THEN /\ CanEnqueue(SetToBag({SummaryTask}))
            /\ tasks' = tasks (+) SetToBag({SummaryTask})
            /\ summary_task_queued' = TRUE
       ELSE UNCHANGED <<tasks, summary_task_queued>>
    /\ idle' = 0
    /\ UNCHANGED <<received_chunks, transcript_text, summary_markdown, done,
                   chunks, files, resumed, raced, lost>>
    /\ response' = OK
    /\ UNCHANGED <<feedback, other_files, polling>>

get_meeting ==
    /\ final_received' = poll_final
    /\ expected_chunks' = poll_expected
    /\ IF poll_triggers_summary
       THEN /\ CanEnqueue(SetToBag({SummaryTask}))
            /\ tasks' = tasks (+) SetToBag({SummaryTask})
            /\ summary_task_queued' = TRUE
       ELSE UNCHANGED <<tasks, summary_task_queued>>
    /\ UNCHANGED <<received_chunks, transcript_text, summary_markdown, done,
                   idle, chunks, files, resumed, raced, lost>>
    /\ response' = OK
    /\ UNCHANGED <<feedback, other_files, polling>>

-----------------------------------------------------------------------------
(* POST /api/meetings/{mid}/regenerate *)

regenerate_meeting_summary ==
    /\ done' = FALSE
    /\ summary_markdown' = Null
    /\ summary_task_queued' = FALSE
    /\ UNCHANGED <<expected_chunks, received_chunks, final_received,
                   transcript_text, idle, chunks, files, tasks, resumed, raced, lost>>
    /\ response' = OK
    /\ UNCHANGED <<feedback, other_files, polling>>

-----------------------------------------------------------------------------
(* finalize_meeting_processing *)

\* the values, were the routine to call the summarizer for every transcript
finalize_summaries_always_summarising(final_transcript) ==
    summarise_transcript_in_worker(final_transcript)

\* the values the routine can store in summary_markdown for a transcript
finalize_summaries(final_transcript) ==
    IF final_transcript # <<>>
    THEN summarise_transcript_in_worker(final_transcript)
    ELSE {<<TRANSCRIPT_EMPTY>>}

\* the routine reaches openai.responses.create, where the task is suspended
calls_service(final_transcript) ==
    /\ final_transcript # <<>>
    /\ word_count(strip(final_transcript)) >= MIN_SUMMARY_WORDS

\* the end of the routine, were it to return early on an empty transcript
store_result_unless_empty(final_transcript) ==
    IF final_transcript = <<>>
    THEN UNCHANGED <<transcript_text, summary_markdown, done>>
    ELSE /\ \E summary_md \in finalize_summaries(final_transcript) :
              summary_markdown' = Some(summary_md)
         /\ transcript_text' = Some(final_transcript)
         /\ done' = TRUE

\* the end of the routine, were it to leave the session pending when the
\* summarizer has failed
store_result_pending_on_failure(final_transcript) ==
    /\ \E summary_md \in finalize_summaries(final_transcript) :
          /\ summary_markdown' = Some(summary_md)
          /\ done' = IF summary_md = <<SUMMARY_FAILED>> THEN done ELSE TRUE
    /\ transcript_text' = Some(final_transcript)

\* the end of the routine, were it to add the rebuilt transcript to the one
\* the session already has
store_result_accumulating(final_transcript) ==
    /\ \E summary_md \in finalize_summaries(final_transcript) :
          summary_markdown' = Some(summary_md)
    /\ transcript_text' = IF IsNull(transcript_text) THEN Some(final_transcript)
                          ELSE Some(Val(transcript_text) \o <<SP>> \o final_transcript)
    /\ done' = TRUE

\* the end of the routine: store the transcript and the summary, set done, commit
store_result(final_transcript) ==
    /\ \E summary_md \in finalize_summaries(final_transcript) :
          summary_markdown' = Some(summary_md)
    /\ transcript_text' = Some(final_transcript)
    /\ done' = TRUE

\* the beginning of the routine, called by a task of the given kind that leaves
\* the tasks rest behind: rebuild the transcript from the rows; then either the
\* summarization service is called and the caller waits, or the routine ends
\* in this step
start_finalizing(rest, kind, chunk_index, rows) ==
    \E final_transcript \in {rebuild_full_transcript(rows)} :
        IF calls_service(final_transcript)
        THEN /\ BagCardinality(rest) < MaxTasks
             /\ tasks' = rest (+) SetToBag({Finalizing(kind, chunk_index, final_transcript)})
             /\ UNCHANGED <<transcript_text, summary_markdown, done>>
        ELSE /\ tasks' = rest
             /\ store_result(final_transcript)

\* the service has answered the caller t: the end of the routine
finalize_meeting_processing(t) ==
    /\ BagIn(t, tasks) /\ t.pc = "summarise"
    /\ store_result(t.local)
    /\ tasks' = Finish(t)
    /\ UNCHANGED <<expected_chunks, received_chunks, final_received,
                   summary_task_queued, idle, chunks, files, resumed, raced, lost, http>>

-----------------------------------------------------------------------------
(* process_transcription_and_summary *)

\* first step: the worker reads the chunk file and transcribes it
transcribe_chunk(t) ==
    /\ BagIn(t, tasks) /\ t.kind = "transcription" /\ t.pc = "queued"
    /\ \E chunk_text \in transcribe_webm_chunk_in_worker(files[t.chunk_index]) :
          tasks' = Replace(t, Task("transcription", t.chunk_index, "transcribed", chunk_text))
    /\ UNCHANGED <<meeting, chunks, files, resumed, raced, lost, http>>

\* effective_expected for the given values of the two columns
effective_expected_of(expected, received) ==
    IF ~IsNull(expected) THEN Val(expected) ELSE received

effective_expected == effective_expected_of(expected_chunks, received_chunks)

\* the test, were it to leave out "not mtg.done"
should_finalize_even_if_done(is_done, is_final, expected, received, rows) ==
    /\ is_final
    /\ effective_expected_of(expected, received) > 0
    /\ transcribed_count(rows) >= effective_expected_of(expected, received)

\* the test, were it to leave out mtg.final_received
should_finalize_before_final(is_done, is_final, expected, received, rows) ==
    /\ ~is_done
    /\ effective_expected_of(expected, received) > 0
    /\ transcribed_count(rows) >= effective_expected_of(expected, received)

\* the test of the task for calling the finalization routine, for the given
\* values of the columns of the meeting and the given chunk rows
should_finalize(is_done, is_final, expected, received, rows) ==
    /\ ~is_done
    /\ is_final
    /\ effective_expected_of(expected, received) > 0
    /\ transcribed_count(rows) >= effective_expected_of(expected, received)

\* the test on the meeting as it is and the rows as they are after the commit
\* of the task
transcription_complete(rows) ==
    should_finalize(done, final_received, expected_chunks, received_chunks, rows)

\* the chunk rows and the columns the task and the finalization routine write
session_state ==
    [rows |-> chunks, done |-> done, transcript_text |-> transcript_text,
     summary_markdown |-> summary_markdown]

\* the task run from its first line to its last on the session state s with
\* no other operation in between, the transcription service returning
\* chunk_text: the states it can leave
run_transcription_task(s, chunk_index, chunk_text) ==
    IF chunk_index \notin DOMAIN s.rows THEN {s}
    ELSE LET rows == [s.rows EXCEPT ![chunk_index] = Some(chunk_text)]
             final_transcript == rebuild_full_transcript(rows)
         IN  IF should_finalize(s.done, final_received, expected_chunks,
                                received_chunks, rows)
             THEN {[rows |-> rows, done |-> TRUE,
                    transcript_text |-> Some(final_transcript),
                    summary_markdown |-> Some(summary_md)] :
                      summary_md \in finalize_summaries(final_transcript)}
             ELSE {[s EXCEPT !.rows = rows]}

\* second step: persist the text, count, and call the finalization routine
\* when the count has reached the expected number
persist_chunk_text(t) ==
    /\ BagIn(t, tasks) /\ t.kind = "transcription" /\ t.pc = "transcribed"
    /\ IF t.chunk_index \notin DOMAIN chunks
       THEN /\ tasks' = Finish(t)
            /\ UNCHANGED <<chunks, transcript_text, summary_markdown, done>>
       ELSE \E rows \in {[chunks EXCEPT ![t.chunk_index] = Some(t.local)]} :
                /\ chunks' = rows
                /\ IF transcription_complete(rows)
                   THEN start_finalizing(Finish(t), "transcription", t.chunk_index, rows)
                   ELSE /\ tasks' = Finish(t)
                        /\ UNCHANGED <<transcript_text, summary_markdown, done>>
    /\ UNCHANGED <<expected_chunks, received_chunks, final_received,
                   summary_task_queued, idle, files, resumed, raced, lost, http>>

-----------------------------------------------------------------------------
(* generate_summary_only *)

generate_summary_only(t) ==
    /\ BagIn(t, tasks) /\ t.kind = "summary_only" /\ t.pc = "queued"
    /\ IF done
       THEN /\ tasks' = Finish(t)
            /\ UNCHANGED <<transcript_text, summary_markdown, done>>
       ELSE start_finalizing(Finish(t), "summary_only", 0, chunks)
    /\ UNCHANGED <<expected_chunks, received_chunks, final_received,
                   summary_task_queued, idle, chunks, files, resumed, raced, lost, http>>

-----------------------------------------------------------------------------
(* cleanup_stuck_meetings *)

INACTIVITY_TIMEOUT_MINUTES == 5
STUCK_THRESHOLD_MINUTES == 15

\* Meeting.last_activity < utcnow() - timedelta(minutes = m)
inactive_for(m) == idle > m * 60

\* step 1: the meeting is among inactive_meetings
janitor_abandoned ==
    ~done /\ ~final_received /\ inactive_for(INACTIVITY_TIMEOUT_MINUTES)

\* final_received and expected_chunks as step 1 commits them
janitor_final == final_received \/ janitor_abandoned
\* expected_chunks, were step 1 to set final_received only
janitor_expected_unpinned == expected_chunks

janitor_expected == IF janitor_abandoned /\ IsNull(expected_chunks)
                    THEN Some(received_chunks) ELSE expected_chunks

\* step 2: the meeting is among stuck_meetings
janitor_stuck ==
    ~done /\ janitor_final /\ inactive_for(STUCK_THRESHOLD_MINUTES)

\* the test of step 2 with its condition inverted
janitor_finalizes_if_unprocessed == janitor_stuck /\ unprocessed_chunks(chunks) # {}

\* the test, were the sweep to finalize only when the count has reached
\* the expected number
janitor_finalizes_when_counted ==
    /\ janitor_stuck /\ unprocessed_chunks(chunks) = {}
    /\ transcribed_count(chunks) >= effective_expected_of(janitor_expected, received_chunks)

\* a stuck meeting without unprocessed chunks: the sweep calls the
\* finalization routine
janitor_finalizes == janitor_stuck /\ unprocessed_chunks(chunks) = {}

\* the rows of unprocessed_chunks that have their file on disk
chunks_on_disk(pending) == {j \in pending : files[j] # NOFILE}

\* the sets of rows the re-queueing loop can pass through. For a row whose
\* file is gone the loop formats an error message from chunk.index, a field
\* MeetingChunk does not have: the AttributeError ends the task there, after
\* the commit of last_activity. The query has no ORDER BY, so the rows before
\* the first one without a file are any of those that have theirs.
visited_chunks(pending) ==
    IF chunks_on_disk(pending) = pending THEN {pending}
    ELSE SUBSET chunks_on_disk(pending)

\* the tasks queued again, were the test of chunk_path.exists() inverted
requeued_missing_files(pending) ==
    SetToBag({TranscriptionTask(i) : i \in {j \in pending : files[j] = NOFILE}})

\* the tasks queued again, were the sweep to queue one for every chunk record
requeued_tasks_for_all_chunks(pending) ==
    SetToBag({TranscriptionTask(i) : i \in {j \in DOMAIN chunks : files[j] # NOFILE}})

\* the transcription tasks the sweep queues again for the chunks without text
requeued_tasks(pending) ==
    SetToBag({TranscriptionTask(i) : i \in {j \in pending : files[j] # NOFILE}})

\* the sweep, were it to queue the tasks again without touching last_activity
cleanup_stuck_meetings_leaving_activity ==
    /\ final_received' = janitor_final
    /\ expected_chunks' = janitor_expected
    /\ IF janitor_finalizes
       THEN start_finalizing(tasks, "janitor", 0, chunks)
       ELSE IF janitor_stuck
       THEN /\ \E visited \in visited_chunks(unprocessed_chunks(chunks)) :
                  /\ CanEnqueue(requeued_tasks(visited))
                  /\ tasks' = tasks (+) requeued_tasks(visited)
            /\ UNCHANGED <<transcript_text, summary_markdown, done>>
       ELSE UNCHANGED <<tasks, transcript_text, summary_markdown, done>>
    /\ UNCHANGED <<received_chunks, summary_task_queued, idle, chunks, files, resumed, raced,
                   lost, http>>

cleanup_stuck_meetings ==
    /\ final_received' = janitor_final
    /\ expected_chunks' = janitor_expected
    /\ IF janitor_finalizes
       THEN /\ start_finalizing(tasks, "janitor", 0, chunks)
            /\ UNCHANGED idle
       ELSE IF janitor_stuck
       THEN /\ \E visited \in visited_chunks(unprocessed_chunks(chunks)) :
                  /\ CanEnqueue(requeued_tasks(visited))
                  /\ tasks' = tasks (+) requeued_tasks(visited)
            /\ idle' = 0
            /\ UNCHANGED <<transcript_text, summary_markdown, done>>
       ELSE UNCHANGED <<idle, tasks, transcript_text, summary_markdown, done>>
    /\ UNCHANGED <<received_chunks, summary_task_queued, chunks, files, resumed, raced,
                   lost, http>>

-----------------------------------------------------------------------------
(* The environment *)

\* the instants at which the session is observed, as seconds since last_activity
IdleSamples == {0, INACTIVITY_TIMEOUT_SECONDS + 1,
                INACTIVITY_TIMEOUT_MINUTES * 60 + 1, STUCK_THRESHOLD_MINUTES * 60 + 1}

\* time passes
Tick ==
    /\ \E t \in IdleSamples : t > idle /\ idle' = t
    /\ UNCHANGED <<expected_chunks, received_chunks, final_received, transcript_text,
                   summary_markdown, done, summary_task_queued, chunks, files,
                   tasks, resumed, raced, lost, http>>

\* a worker dies, or a task raises until its retries are exhausted: the task t
\* is gone and has written nothing more
task_lost(t) ==
    /\ BagIn(t, tasks)
    /\ lost < MaxLost
    /\ lost' = lost + 1
    /\ tasks' = Finish(t)
    /\ UNCHANGED <<meeting, chunks, files, resumed, raced, http>>

\* what a client can send as chunk i
Contents(i) == IF i = SignalIndex THEN {TINY} ELSE {Audio(i, 1)}

Worker ==
    \E t \in BagToSet(tasks) :
        \/ transcribe_chunk(t)
        \/ persist_chunk_text(t)
        \/ generate_summary_only(t)
        \/ finalize_meeting_processing(t)

Crash == \E t \in BagToSet(tasks) : task_lost(t)

Upload ==
    \E i \in Indices \cup {SignalIndex}, is_final \in BOOLEAN :
    \E content \in Contents(i) :
        upload_chunk(i, content, is_final)

Next ==
    \/ Upload
    \/ get_meeting
    \/ regenerate_meeting_summary
    \/ Worker
    \/ cleanup_stuck_meetings
    \/ Crash
    \/ Tick

Spec == Init /\ [][Next]_vars

\* the pipeline with a client that uploads and polls, and no more
NextPipeline ==
    \/ Upload
    \/ get_meeting
    \/ Worker
    \/ cleanup_stuck_meetings
    \/ Crash
    \/ Tick

\* Celery runs every task it holds, the beat schedule and the worker start-up
\* run the janitor again and again, and time passes
Fairness ==
    /\ WF_vars(Worker)
    /\ WF_vars(cleanup_stuck_meetings)
    /\ WF_vars(Tick)

FairSpec == Init /\ [][NextPipeline]_vars /\ Fairness

\* what a client that records a segment again can send as chunk i
ContentsAnyTake(i) == {Audio(i, 1), Audio(i, 2)}

Reupload ==
    \E i \in Indices, is_final \in BOOLEAN :
    \E content \in ContentsAnyTake(i) :
        upload_chunk(i, content, is_final)

\* a client that uploads either take of a segment and polls, and the workers
NextReupload ==
    \/ Reupload
    \/ get_meeting
    \/ Worker

ReuploadSpec == Init /\ [][NextReupload]_vars

-----------------------------------------------------------------------------
(* Requests that name a meeting id *)

\* every variable but response
stored == <<meeting, chunks, files, tasks, resumed, raced, lost, feedback, other_files,
            polling>>

\* upload_chunk, were it to look the meeting up after it has stored the file
upload_not_found_after_store(meeting_id, chunk_index) ==
    /\ other_files' = other_files \cup {<<meeting_id, chunk_index>>}
    /\ response' = NOT_FOUND
    /\ UNCHANGED <<meeting, chunks, files, tasks, resumed, raced, lost, feedback, polling>>

\* upload_chunk for an id without a Meeting row: raise HTTPException(404)
upload_not_found(meeting_id, chunk_index) ==
    /\ response' = NOT_FOUND
    /\ UNCHANGED stored

\* POST /api/chunks with the form field meeting_id
post_chunk(meeting_id, chunk_index, content, is_final) ==
    IF ~found(meeting_id) THEN upload_not_found(meeting_id, chunk_index)
    ELSE upload_chunk(chunk_index, content, is_final)

\* GET /api/meetings/{mid}
get_status(mid) ==
    IF ~found(mid)
    THEN /\ response' = NOT_FOUND
         /\ UNCHANGED stored
    ELSE get_meeting

PostChunk ==
    \E meeting_id \in MeetingIds, i \in Indices \cup {SignalIndex}, is_final \in BOOLEAN :
    \E content \in Contents(i) :
        post_chunk(meeting_id, i, content, is_final)

GetStatus == \E mid \in MeetingIds : get_status(mid)

NextRequest ==
    \/ PostChunk
    \/ GetStatus
    \/ Worker

\* the pipeline with clients that also name a meeting that does not exist
RequestSpec == Init /\ [][NextRequest]_vars

-----------------------------------------------------------------------------
(* POST /api/feedback *)

MaxFeedback == 3

FeedbackTypes == {"spot_on", "too_short", "feature_suggestion"}
\* FeedbackCreate.suggestion_text: absent, blank, or a text with a trailing space
SuggestionTexts == {Null, Some(<<SP>>), Some(<<"idea", SP>>)}

\* a Feedback row
Feedback(meeting_id, feedback_type, suggestion_text) ==
    [meeting_id |-> meeting_id, feedback_type |-> feedback_type,
     suggestion_text |-> suggestion_text]

\* db.add(row); db.commit(); the response has the status code of the decorator
insert_feedback(row) ==
    /\ BagCardinality(feedback) < MaxFeedback
    /\ feedback' = feedback (+) SetToBag({row})
    /\ response' = CREATED

\* the handler, were it to store the row without looking the meeting up
feedback_not_found_inserting(meeting_id, feedback_type) ==
    insert_feedback(Feedback(meeting_id, feedback_type, Null))

\* create_feedback for an id without a Meeting row: raise HTTPException(404)
feedback_not_found(meeting_id, feedback_type) ==
    /\ response' = NOT_FOUND
    /\ UNCHANGED feedback

\* the handler, were it to store a standard type without looking for an
\* existing row
create_feedback_without_lookup(meeting_id, feedback_type, suggestion_text) ==
    /\ IF ~found(meeting_id) THEN feedback_not_found(meeting_id, feedback_type)
       ELSE IF feedback_type = "feature_suggestion"
       THEN IF ~IsNull(suggestion_text) /\ strip(Val(suggestion_text)) # <<>>
            THEN insert_feedback(Feedback(meeting_id, "feature_suggestion",
                                          Some(strip(Val(suggestion_text)))))
            ELSE /\ response' = NO_CONTENT
                 /\ UNCHANGED feedback
       ELSE insert_feedback(Feedback(meeting_id, feedback_type, Null))
    /\ UNCHANGED <<meeting, chunks, files, tasks, resumed, raced, lost, other_files, polling>>

create_feedback(meeting_id, feedback_type, suggestion_text) ==
    /\ IF ~found(meeting_id) THEN feedback_not_found(meeting_id, feedback_type)
       ELSE IF feedback_type = "feature_suggestion"
       THEN IF ~IsNull(suggestion_text) /\ strip(Val(suggestion_text)) # <<>>
            THEN insert_feedback(Feedback(meeting_id, "feature_suggestion",
                                          Some(strip(Val(suggestion_text)))))
            ELSE /\ response' = NO_CONTENT
                 /\ UNCHANGED feedback
       ELSE IF \E row \in BagToSet(feedback) :
                  row.meeting_id = meeting_id /\ row.feedback_type = feedback_type
            THEN /\ response' = CREATED
                 /\ UNCHANGED feedback
            ELSE insert_feedback(Feedback(meeting_id, feedback_type, Null))
    /\ UNCHANGED <<meeting, chunks, files, tasks, resumed, raced, lost, other_files, polling>>

PostFeedback ==
    \E meeting_id \in MeetingIds, feedback_type \in FeedbackTypes :
    \E suggestion_text \in SuggestionTexts :
        create_feedback(meeting_id, feedback_type, suggestion_text)

NextFeedback ==
    \/ Upload
    \/ Worker
    \/ PostFeedback

\* a session that is recorded while feedback is posted
FeedbackSpec == Init /\ [][NextFeedback]_vars

-----------------------------------------------------------------------------
(* GET /api/meetings/{mid} served by several threads *)

MaxPolls == 2

\* the handler up to its test for generate_summary_only: a request whose test
\* holds goes on to the call of .delay, any other request is answered
get_meeting_test ==
    /\ polling < MaxPolls
    /\ final_received' = poll_final
    /\ expected_chunks' = poll_expected
    /\ IF poll_triggers_summary
       THEN /\ polling' = polling + 1
            /\ UNCHANGED response
       ELSE /\ response' = OK
            /\ UNCHANGED polling
    /\ UNCHANGED <<received_chunks, transcript_text, summary_markdown, done,
                   summary_task_queued, idle, chunks, files, tasks, resumed, raced, lost,
                   feedback, other_files>>

\* a request whose test held: generate_summary_only.delay, then
\* summary_task_queued = True and the commit
get_meeting_enqueue ==
    /\ polling > 0
    /\ CanEnqueue(SetToBag({SummaryTask}))
    /\ tasks' = tasks (+) SetToBag({SummaryTask})
    /\ summary_task_queued' = TRUE
    /\ polling' = polling - 1
    /\ response' = OK
    /\ UNCHANGED <<expected_chunks, received_chunks, final_received, transcript_text,
                   summary_markdown, done, idle, chunks, files, resumed, raced, lost,
                   feedback, other_files>>

NextConcurrentPolls ==
    \/ Upload
    \/ get_meeting_test
    \/ get_meeting_enqueue
    \/ regenerate_meeting_summary
    \/ Worker

\* the pipeline with status requests that run in the threads of the server
ConcurrentPollSpec == Init /\ [][NextConcurrentPolls]_vars

-----------------------------------------------------------------------------
(* The pipeline on a disk that loses chunk files *)

MaxMissing == 1

\* the stored audio of the chunk record i is no longer under data/audio:
\* what the sweep meets when chunk_path.exists() is false
file_lost(i) ==
    /\ i \in DOMAIN chunks
    /\ files[i] # NOFILE
    /\ Cardinality({j \in DOMAIN chunks : files[j] = NOFILE}) < MaxMissing
    /\ files' = [files EXCEPT ![i] = NOFILE]
    /\ UNCHANGED <<meeting, chunks, tasks, resumed, raced, lost, http>>

FileLost == \E i \in Indices : file_lost(i)

NextMissingFile ==
    \/ Upload
    \/ Worker
    \/ cleanup_stuck_meetings
    \/ Crash
    \/ Tick
    \/ FileLost

MissingFileSpec == Init /\ [][NextMissingFile]_vars

-----------------------------------------------------------------------------
(* Claims *)

\* the tokens of a string that are not spaces
Words(s) == SelectSeq(s, LAMBDA c : c # SP)

\* how often the token w occurs in the string s
Occurrences(s, w) == Cardinality({k \in 1 .. Len(s) : s[k] = w})

\* the position of the first occurrence of w in s
Position(s, w) == CHOOSE k \in 1 .. Len(s) : s[k] = w /\ \A j \in 1 .. k - 1 : s[j] # w

\* the records of the real chunks (chunk_index > 0) that have a non-empty text
SpokenRows == {i \in DOMAIN chunks : i > 0 /\ ~IsNull(chunks[i]) /\ Val(chunks[i]) # <<>>}

\* every chunk record of the session has a text
AllTranscribed == unprocessed_chunks(chunks) = {}

\* the session is done and no task is queued or running
Quiescent == done /\ tasks = EmptyBag

\* C1: once the session is finalized and every chunk record has a non-null
\* text, the session eventually is done, whatever the client does or does not
\* do afterwards, when the workers and the janitor keep running.
C1_FinalizedAndTranscribedLeadsToDone ==
    (final_received /\ AllTranscribed) ~> done

\* a finalized session, an index uploaded twice, every text written, done
C1_Witness ==
    /\ final_received /\ done /\ AllTranscribed
    /\ DOMAIN chunks # {}
    /\ received_chunks > Cardinality(DOMAIN chunks)

\* C2: in every quiescent state the stored transcript holds the text of every
\* real chunk exactly once, and these texts stand in ascending chunk-index
\* order.
C2_QuiescentTranscriptHasEveryChunkOnce ==
    Quiescent =>
        /\ ~IsNull(transcript_text)
        /\ \A i \in SpokenRows :
              Occurrences(Val(transcript_text), Val(chunks[i])[1]) = 1
        /\ \A i, j \in SpokenRows :
              i < j => Position(Val(transcript_text), Val(chunks[i])[1])
                         < Position(Val(transcript_text), Val(chunks[j])[1])

\* C3: when a done session has received one more real chunk and all the work
\* that followed has settled with no task lost, the session is done again and
\* its stored transcript includes the text of that chunk.
C3_ResumedChunkInRefinalizedTranscript ==
    (Quiescent /\ lost = 0 /\ ~IsNull(resumed) /\ Val(resumed) > 0) =>
        /\ ~IsNull(chunks[Val(resumed)])
        /\ ~IsNull(transcript_text)
        /\ \A k \in 1 .. Len(Val(chunks[Val(resumed)])) :
              Occurrences(Val(transcript_text), Val(chunks[Val(resumed)])[k]) >= 1

\* C4: the upload of a real chunk (the only step that counts a chunk) to a
\* done session leaves done false, summary_markdown null and
\* summary_task_queued false.
C4_ResumeResetsDoneSummaryAndQueuedFlag ==
    [][(done /\ received_chunks' = received_chunks + 1) =>
          (~done' /\ IsNull(summary_markdown') /\ ~summary_task_queued')]_vars

RECURSIVE prefix_texts(_, _)
\* the texts of the chunks i, i + 1, ... up to the first missing or pending one
prefix_texts(rows, i) ==
    IF i \in DOMAIN rows /\ ~IsNull(rows[i])
    THEN <<Val(rows[i])>> \o prefix_texts(rows, i + 1)
    ELSE <<>>

LiveCount == IF poll_final /\ ~IsNull(poll_expected) THEN Val(poll_expected)
             ELSE received_chunks

\* what stands for the index i in the live transcript
Shown(i) == IF i \in DOMAIN chunks /\ ~IsNull(chunks[i]) THEN Val(chunks[i])
            ELSE <<PLACEHOLDER>>

RECURSIVE ShownUpTo(_)
ShownUpTo(n) == IF n = 0 THEN <<>> ELSE ShownUpTo(n - 1) \o Shown(n - 1)

C6_StuckChunkIsRequeuedAndSessionCompletes ==
    (/\ final_received /\ ~done
     /\ unprocessed_chunks(chunks) # {}
     /\ tasks = EmptyBag
     /\ inactive_for(STUCK_THRESHOLD_MINUTES)) ~> done

\* the task of the only upload was lost and the janitor has queued it again
C6_Witness ==
    /\ final_received /\ ~done
    /\ lost = 1 /\ received_chunks = 1
    /\ \E i \in unprocessed_chunks(chunks) : BagIn(TranscriptionTask(i), tasks)

\* C7: a status call for a session that is not finalized and inactive beyond
\* the inactivity window returns with final_received set and expected_chunks
\* equal to received_chunks.
C7_PollAutoFinalizesInactiveSession ==
    (~final_received /\ idle > INACTIVITY_TIMEOUT_SECONDS) =>
        (poll_final /\ poll_expected = Some(received_chunks))

\* C8: a sweep over a session that is not finalized, not done and inactive
\* beyond the short window leaves final_received set and expected_chunks equal
\* to received_chunks.
C8_SweepFinalizesAbandonedSession ==
    [][(janitor_abandoned /\ cleanup_stuck_meetings) =>
          (final_received' /\ expected_chunks' = Some(received_chunks))]_vars

\* every chunk record of the session, if there is any, has the text ""
NothingSpoken == \A i \in DOMAIN chunks : chunks[i] = Some(<<>>)

\* a step in which the finalization routine is called, by the janitor, by a
\* summary-only task or by a transcription task
FinalizationRuns ==
    \/ janitor_finalizes /\ cleanup_stuck_meetings
    \/ \E t \in BagToSet(tasks) : ~done /\ generate_summary_only(t)
    \/ \E t \in BagToSet(tasks) : /\ t.chunk_index \in DOMAIN chunks
                                  /\ transcription_complete(chunks')
                                  /\ persist_chunk_text(t)

C10_FinalizedEmptySessionLeadsToDone ==
    (final_received /\ received_chunks = 0) ~> done

\* a session that was finalized without any real chunk is done
C10_Witness ==
    final_received /\ received_chunks = 0 /\ done /\ transcript_text = Some(<<>>)

\* no transcription task for the chunk i is queued or running
NoTaskFor(i) ==
    \A t \in BagToSet(tasks) : ~(t.kind = "transcription" /\ t.chunk_index = i)

\* C11: once every transcription task queued for an index has finished, the
\* text of the chunk is the transcription of the bytes uploaded last for that
\* index (the file holds them), also when the index was uploaded again with
\* other bytes, for every interleaving of the tasks and the uploads.
C11_ReuploadedBytesSupersede ==
    \A i \in DOMAIN chunks :
        NoTaskFor(i) =>
            /\ ~IsNull(chunks[i])
            /\ Val(chunks[i]) \in transcribe_webm_chunk_in_worker(files[i])

\* C12: the transcription task run a second time for the same chunk, the
\* service returning the same text for the same audio, leaves the chunk text
\* and done, transcript_text and summary_markdown as the first run left them.
C12_SecondRunOfTaskChangesNothing ==
    \A i \in DOMAIN chunks :
    \A chunk_text \in transcribe_webm_chunk_in_worker(files[i]) :
    \A once \in run_transcription_task(session_state, i, chunk_text) :
        run_transcription_task(once, i, chunk_text) = {once}

\* two tasks are queued for one chunk of a finalized session, and the first of
\* them to run calls the finalization routine and the summarization service
C12_Witness ==
    /\ ~done /\ final_received
    /\ \E i \in DOMAIN chunks :
          /\ CopiesIn(TranscriptionTask(i), tasks) = 2
          /\ transcription_complete([chunks EXCEPT ![i] = Some(Speech(files[i]))])
          /\ calls_service(rebuild_full_transcript(
                              [chunks EXCEPT ![i] = Some(Speech(files[i]))]))

C14_DoneHasSummaryAndTranscript ==
    done => (~IsNull(summary_markdown) /\ ~IsNull(transcript_text))

\* a session that was done, was resumed by an upload, and is done again with
\* a summary and no task left
C14_Witness ==
    /\ done /\ ~IsNull(resumed)
    /\ ~IsNull(summary_markdown) /\ Val(summary_markdown) # <<TRANSCRIPT_EMPTY>>
    /\ tasks = EmptyBag

\* C15: the upload of the chunk with the index 0, whatever its size, does not
\* increment received_chunks and queues no transcription task, and no text of
\* the index 0 stands in a stored transcript.
C15_HeaderChunkNeverCountedNorTranscribed ==
    [][/\ \A content \in Contents(0) \cup {TINY} : \A is_final \in BOOLEAN :
             upload_chunk(0, content, is_final) =>
                 /\ received_chunks' = received_chunks
                 /\ tasks' = tasks
       /\ ~IsNull(transcript_text') =>
             Occurrences(Val(transcript_text'), Speech(Audio(0, 1))[1]) = 0]_vars

\* the larger of two numbers
Max(a, b) == IF a >= b THEN a ELSE b

\* C16: after an upload with is_final = true, of a real chunk or of a
\* signalling chunk, final_received is true and expected_chunks is the larger
\* of its previous value (0 when null) and received_chunks after the upload.
C16_FinalUploadPinsExpectedToMax ==
    [][\A i \in Indices \cup {SignalIndex} : \A content \in Contents(i) :
          upload_chunk(i, content, TRUE) =>
              /\ final_received'
              /\ expected_chunks' =
                    Some(Max(IF IsNull(expected_chunks) THEN 0 ELSE Val(expected_chunks),
                             received_chunks'))]_vars

\* C17: once expected_chunks is set, no step lowers it or sets it back to
\* null, and no step lowers received_chunks.
C17_ExpectedAndReceivedNeverDecrease ==
    [][/\ ~IsNull(expected_chunks) =>
             (~IsNull(expected_chunks') /\ Val(expected_chunks') >= Val(expected_chunks))
       /\ received_chunks' >= received_chunks]_vars

\* expected_chunks stands above the number of chunks received in a finalized
\* session, after a signalling chunk was uploaded and past the janitor's windows
C17_Witness ==
    /\ final_received /\ ~IsNull(expected_chunks)
    /\ Val(expected_chunks) > received_chunks
    /\ files[SignalIndex] = TINY
    /\ inactive_for(STUCK_THRESHOLD_MINUTES)

C19_FailedTranscriptionLeavesTextNull ==
    \A i \in DOMAIN chunks :
        files[i] \notin {TINY, NOFILE} => chunks[i] # Some(<<>>)

\* C20: when the summarization service raises during the finalization of a
\* session whose transcript was sent to it, the step that ends the routine
\* stores the summary-generation-failed sentinel, the transcript and
\* done = true, and the task that ran the routine ends: it is not queued
\* again and nothing else is queued.
C20_FailedSummaryIsTerminal ==
    [][\A t \in BagToSet(tasks) :
          (finalize_meeting_processing(t) /\ summary_markdown' = Some(<<SUMMARY_FAILED>>))
              => /\ done'
                 /\ transcript_text' = Some(t.local)
                 /\ calls_service(t.local)
                 /\ tasks' = tasks (-) SetToBag({t})
                 /\ summary_task_queued' = summary_task_queued]_vars

\* a finished session whose summary is the sentinel and whose task is gone
C20_Witness ==
    /\ done /\ summary_markdown = Some(<<SUMMARY_FAILED>>)
    /\ ~IsNull(transcript_text) /\ calls_service(Val(transcript_text))
    /\ BagCardinality(tasks) = 0

\* C21: the upload of a signalling chunk creates or modifies no chunk record,
\* leaves received_chunks, last_activity, done, summary_markdown and the
\* other columns unchanged and queues no task; without is_final it leaves
\* final_received and expected_chunks unchanged as well, with is_final it
\* sets final_received.
C21_SignalUploadOnlyFinalizes ==
    [][\A is_final \in BOOLEAN :
          upload_chunk(SignalIndex, TINY, is_final) =>
              /\ UNCHANGED <<chunks, received_chunks, idle, done, summary_markdown,
                             transcript_text, summary_task_queued, tasks>>
              /\ ~is_final => UNCHANGED <<final_received, expected_chunks>>
              /\ is_final => final_received']_vars

\* a signalling chunk has been uploaded with is_final to a session that had
\* received a chunk some time before
C21_Witness ==
    /\ files[SignalIndex] = TINY /\ final_received
    /\ expected_chunks = Some(1) /\ received_chunks = 1
    /\ idle > INACTIVITY_TIMEOUT_SECONDS /\ DOMAIN chunks = {0}

\* C22: an upload of a real chunk to the session adds exactly one
\* transcription task for its index to the queue, not yet started, in the
\* step that commits the chunk record with a null text and the incremented
\* received_chunks; a signalling upload and an upload that is answered with
\* not-found add no task.
C22_RealUploadQueuesOneTask ==
    [][\A meeting_id \in MeetingIds : \A i \in Indices \cup {SignalIndex} :
       \A content \in Contents(i) : \A is_final \in BOOLEAN :
          post_chunk(meeting_id, i, content, is_final) =>
              IF found(meeting_id) /\ ~IsSignalOnly(content)
              THEN /\ tasks' = tasks (+) SetToBag({TranscriptionTask(i)})
                   /\ i \in DOMAIN chunks' /\ chunks'[i] = Null
                   /\ received_chunks' = received_chunks + 1
                   /\ response' = OK
              ELSE tasks' = tasks]_vars

\* the same index has been uploaded twice and both its tasks wait in the queue
C22_Witness ==
    /\ CopiesIn(TranscriptionTask(0), tasks) = 2
    /\ received_chunks = 2 /\ DOMAIN chunks = {0} /\ chunks[0] = Null

\* C23: an upload or a status query that names a meeting id without a Meeting
\* row is answered with 404 "Meeting not found" and changes nothing: the
\* columns of the session, the chunk records, the stored files of the session
\* and of any other id, and the task queue are as before.
C23_UnknownSessionChangesNothing ==
    [][/\ \A i \in Indices \cup {SignalIndex} : \A content \in Contents(i) :
          \A is_final \in BOOLEAN :
             post_chunk(UNKNOWN, i, content, is_final) =>
                 /\ response' = NOT_FOUND
                 /\ UNCHANGED <<meeting, chunks, files, other_files, tasks>>
       /\ get_status(UNKNOWN) =>
             /\ response' = NOT_FOUND
             /\ UNCHANGED <<meeting, chunks, files, other_files, tasks>>]_vars

\* a request for the unknown id has been answered while a chunk of the session
\* waits for its transcription
C23_Witness ==
    /\ response = NOT_FOUND /\ other_files = {}
    /\ received_chunks = 1 /\ files[0] # NOFILE
    /\ CopiesIn(TranscriptionTask(0), tasks) = 1

\* C24: posting feedback of any type for a meeting id without a Meeting row
\* is answered with 404 "Meeting not found" and stores no Feedback row.
C24_FeedbackForUnknownMeetingIsRejected ==
    [][\A feedback_type \in FeedbackTypes : \A suggestion_text \in SuggestionTexts :
          create_feedback(UNKNOWN, feedback_type, suggestion_text) =>
              /\ response' = NOT_FOUND
              /\ feedback' = feedback]_vars

\* feedback for the unknown id has been answered after feedback for the
\* session was stored
C24_Witness ==
    /\ response = NOT_FOUND
    /\ BagCardinality(feedback) = 1
    /\ \A row \in BagToSet(feedback) : row.meeting_id = MEETING

\* expected_chunks if the session is finalized and received_chunks otherwise
FinalizedExpected ==
    IF final_received /\ ~IsNull(expected_chunks) THEN Val(expected_chunks)
    ELSE received_chunks

\* the step of the task t calls the finalization routine: the routine waits
\* for the summarization service in the name of t, or has set done
InvokesFinalization(t) ==
    \/ done' # done
    \/ \E final_transcript \in {rebuild_full_transcript(chunks')} :
          CopiesIn(Finalizing("transcription", t.chunk_index, final_transcript), tasks')
              > CopiesIn(Finalizing("transcription", t.chunk_index, final_transcript), tasks)

\* C25: the step in which a transcription task persists its text calls the
\* finalization routine only if the session is not done, is finalized, and the
\* number of chunks with a text after the write is positive and at least
\* effective_expected (expected_chunks when finalized, received_chunks
\* otherwise); a step that does not call it leaves every column of the
\* session unchanged.
C25_TaskFinalizesOnlyWhenComplete ==
    [][\A t \in BagToSet(tasks) :
          persist_chunk_text(t) =>
              /\ InvokesFinalization(t) =>
                    /\ ~done /\ final_received
                    /\ FinalizedExpected > 0
                    /\ transcribed_count(chunks') >= FinalizedExpected
              /\ ~InvokesFinalization(t) => UNCHANGED meeting]_vars

\* a transcription task has called the routine and waits for the summary
C25_Witness ==
    /\ ~done /\ final_received
    /\ \E t \in BagToSet(tasks) : t.kind = "transcription" /\ t.pc = "summarise"
    /\ transcribed_count(chunks) >= FinalizedExpected

\* C26: a status poll queues a summary-only task and sets summary_task_queued
\* exactly when, after its auto-finalization, the session is not done,
\* summary_task_queued is false, there is no summary, the session is finalized
\* and the number of chunks with a text is at least expected_chunks, also when
\* expected_chunks is 0; any other poll queues nothing and leaves the flag.
C26_PollQueuesSummaryWhenTranscribed ==
    [][get_meeting =>
          IF /\ ~done /\ ~summary_task_queued /\ IsNull(summary_markdown)
             /\ poll_final
             /\ transcribed_count(chunks) >= Val(poll_expected)
          THEN /\ tasks' = tasks (+) SetToBag({SummaryTask})
               /\ summary_task_queued'
          ELSE UNCHANGED <<tasks, summary_task_queued>>]_vars

\* the number of summary-only tasks in the queue
QueuedSummaryTasks == CopiesIn(SummaryTask, tasks)

\* C27: whatever the number of status polls that run at the same time, a
\* summary-only task is queued only by a step that finds summary_task_queued
\* false and sets it, so that at most one is queued between two resets of the
\* flag.
C27_OneSummaryTaskPerFlagReset ==
    [][QueuedSummaryTasks' > QueuedSummaryTasks =>
          ~summary_task_queued /\ summary_task_queued']_vars

\* the invocation t of the finalization routine ends while the session holds
\* what another invocation has stored from the same chunk rows
SecondInvocationEnds(t) ==
    /\ finalize_meeting_processing(t)
    /\ t.local = rebuild_full_transcript(chunks)
    /\ done
    /\ transcript_text = Some(t.local)
    /\ ~IsNull(summary_markdown) /\ Val(summary_markdown) \in finalize_summaries(t.local)

\* C28: when an invocation of the finalization routine ends after another one
\* has stored its result and no chunk row has changed since both rebuilt the
\* transcript, transcript_text and done stay as the first invocation left
\* them, and summary_markdown changes only if the summarization service gave
\* the second invocation another answer than the first.
C28_SecondFinalizationStoresTheSame ==
    [][\A t \in BagToSet(tasks) :
          SecondInvocationEnds(t) =>
              /\ transcript_text' = transcript_text
              /\ done' = done
              /\ \/ summary_markdown' = summary_markdown
                 \/ {Val(summary_markdown), Val(summary_markdown')}
                       = {ServiceSummary(t.local), <<SUMMARY_FAILED>>}]_vars

\* one invocation has stored its result and another one, started from the
\* same chunk rows, still waits for the summarization service
C28_Witness ==
    /\ done /\ ~IsNull(transcript_text) /\ ~IsNull(summary_markdown)
    /\ \E t \in BagToSet(tasks) :
          /\ t.pc = "summarise"
          /\ transcript_text = Some(t.local)
          /\ t.local = rebuild_full_transcript(chunks)

\* the texts of the rows with a non-null text and chunk_index > 0 in ascending
\* order of chunk_index, joined with single spaces; a text without speech adds
\* nothing to the result
HeaderFreeTranscript(rows) ==
    strip(join(SelectSeq(TextsFrom(rows, 1), LAMBDA t : t # <<>>)))

\* the tasks that are inside the finalization routine in tasks' and were not
\* in tasks
StartedFinalizations ==
    {t \in BagToSet(tasks') : t.pc = "summarise" /\ CopiesIn(t, tasks') > CopiesIn(t, tasks)}

\* C29: the transcript the finalization routine builds and stores is the
\* texts of the chunk rows with a non-null text and an index above 0, in
\* ascending index order, joined with single spaces, as the rows are when the
\* routine starts: an invocation that waits for the summarization service holds
\* that transcript and stores it when it ends, and an invocation that ends in
\* one step stores it in that step.
C29_StoredTranscriptIsOrderedTextsAboveHeader ==
    [][/\ \A t \in StartedFinalizations : t.local = HeaderFreeTranscript(chunks')
       /\ \A t \in BagToSet(tasks) :
             finalize_meeting_processing(t) => transcript_text' = Some(t.local)
       /\ (transcript_text' # transcript_text
             /\ \A t \in BagToSet(tasks) : ~finalize_meeting_processing(t))
          => transcript_text' = Some(HeaderFreeTranscript(chunks'))]_vars

C31_SweepFinalizesStuckSessionWithoutPendingChunks ==
    [][/\ (/\ cleanup_stuck_meetings
           /\ final_received /\ ~done /\ inactive_for(STUCK_THRESHOLD_MINUTES)
           /\ unprocessed_chunks(chunks) = {})
          => \/ done' /\ ~IsNull(summary_markdown')
             \/ CopiesIn(Finalizing("janitor", 0, rebuild_full_transcript(chunks)), tasks')
                   > CopiesIn(Finalizing("janitor", 0, rebuild_full_transcript(chunks)), tasks)
       /\ \A t \in BagToSet(tasks) :
             (t.kind = "janitor" /\ finalize_meeting_processing(t))
                => done' /\ ~IsNull(summary_markdown')]_vars

\* the sweep has finalized a session that has fewer transcribed chunks than
\* expected_chunks
C31_Witness ==
    /\ done /\ ~IsNull(summary_markdown) /\ final_received
    /\ received_chunks = 1
    /\ ~IsNull(expected_chunks) /\ transcribed_count(chunks) < Val(expected_chunks)

\* the sweep queues a transcription task in this step
SweepRequeues ==
    /\ cleanup_stuck_meetings
    /\ \E i \in Indices :
          CopiesIn(TranscriptionTask(i), tasks') > CopiesIn(TranscriptionTask(i), tasks)

\* C32: a sweep that queues transcription tasks again sets last_activity to
\* the current time in the same step, and a sweep queues tasks again only
\* when last_activity is older than the stuck threshold: a sweep that starts
\* within the threshold after the one that queued the tasks queues none.
C32_RequeueTouchesActivity ==
    [][SweepRequeues => inactive_for(STUCK_THRESHOLD_MINUTES) /\ idle' = 0]_vars

\* the task of the only upload was lost, the sweep has queued it again and
\* five minutes have passed, in which no sweep has queued it once more
C32_Witness ==
    /\ idle = INACTIVITY_TIMEOUT_MINUTES * 60 + 1
    /\ final_received /\ ~done
    /\ lost = 1 /\ received_chunks = 1
    /\ DOMAIN chunks = {0} /\ IsNull(chunks[0])
    /\ tasks = SetToBag({TranscriptionTask(0)})

\* the state the regenerate operation leaves of a finalized session that was
\* done and whose chunks all have a text, no upload having reset done before
Regenerated ==
    /\ final_received /\ AllTranscribed
    /\ ~done /\ IsNull(summary_markdown) /\ ~summary_task_queued
    /\ ~IsNull(transcript_text) /\ IsNull(resumed)

\* C33: the regenerate operation on a finalized session whose chunks all have
\* a text leaves done false, summary_markdown null and summary_task_queued
\* false, and in the state it leaves a status poll queues a summary-only task
\* and sets summary_task_queued (the queue having room for the task).
C33_RegenerateIsPickedUpByNextPoll ==
    /\ [][(regenerate_meeting_summary /\ final_received /\ AllTranscribed)
            => ~done' /\ IsNull(summary_markdown') /\ ~summary_task_queued']_vars
    /\ []((Regenerated /\ BagCardinality(tasks) < MaxTasks)
            => ENABLED (/\ get_meeting
                        /\ tasks' = tasks (+) SetToBag({SummaryTask})
                        /\ summary_task_queued'))


(* C34: no premature completion. In every reachable state a session that
   is done has no chunk record with null text: no finalization, whether
   started by a task, a status poll or the janitor, marks the session done
   while a received real chunk is still pending. *)
C34_DoneHasNoPendingChunk ==
    done => unprocessed_chunks(chunks) = {}

\* C35: when a real chunk was uploaded while a finalization routine had read
\* the chunk texts and had not yet committed done, and all the work that
\* followed has settled with no task lost, a session that is done has that
\* chunk's text in its stored transcript.
C35_ChunkUploadedDuringFinalizationIsIncluded ==
    (Quiescent /\ lost = 0 /\ ~IsNull(raced)) =>
        /\ ~IsNull(chunks[Val(raced)])
        /\ ~IsNull(transcript_text)
        /\ \A k \in 1 .. Len(Val(chunks[Val(raced)])) :
              Occurrences(Val(transcript_text), Val(chunks[Val(raced)])[k]) >= 1

\* C36: after any sequence of uploads, re-uploads of an existing index
\* included, received_chunks equals the number of distinct chunk records of
\* the session.
C36_ReceivedCountsDistinctRecords ==
    received_chunks = Cardinality(DOMAIN chunks)

\* C37: in every reachable state a session that is done is finalized, and no
\* operation, a resuming upload and regenerate included, sets final_received
\* back to false once it is true.
C37_DoneIsFinalizedAndFinalIsKept ==
    /\ [](done => final_received)
    /\ [][final_received => final_received']_vars

\* a finalized session that was done, was resumed by a real upload, and is
\* not done while the new chunk is pending
C37_Witness ==
    /\ final_received /\ ~done
    /\ ~IsNull(resumed) /\ Val(resumed) \in DOMAIN chunks
    /\ IsNull(chunks[Val(resumed)])
    /\ IsNull(summary_markdown)
    /\ ~IsNull(transcript_text)

\* C38: a status poll leaves received_chunks, last_activity, done,
\* transcript_text, summary_markdown and every chunk's text as they are; it
\* writes final_received and expected_chunks only when it auto-finalizes, and
\* summary_task_queued only when it queues the summary-only task.
C38_PollWritesOnlyFinalizationAndQueuedFlag ==
    [][get_meeting =>
         /\ UNCHANGED <<received_chunks, idle, done, transcript_text,
                        summary_markdown, chunks>>
         /\ (final_received' # final_received \/ expected_chunks' # expected_chunks)
               => poll_auto_finalizes
         /\ summary_task_queued' # summary_task_queued
               => /\ summary_task_queued'
                  /\ tasks' = tasks (+) SetToBag({SummaryTask})]_vars

\* a poll has auto-finalized an inactive session whose chunks are transcribed
\* and has queued the summary-only task
C38_Witness ==
    /\ idle = INACTIVITY_TIMEOUT_SECONDS + 1
    /\ final_received /\ ~done /\ summary_task_queued
    /\ expected_chunks = Some(received_chunks)
    /\ tasks = SetToBag({SummaryTask})
    /\ response = OK

\* the sweep queues transcription tasks again while a pending chunk has lost
\* its file
SweepRequeuesWithMissingFile ==
    /\ cleanup_stuck_meetings
    /\ janitor_stuck /\ ~janitor_finalizes
    /\ chunks_on_disk(unprocessed_chunks(chunks)) # unprocessed_chunks(chunks)

\* C39: in a sweep of a stuck session, a pending chunk whose audio file no
\* longer exists is skipped, and the sweep still queues a transcription task
\* for every other pending chunk of the session (those with their file).
C39_SweepSkipsMissingFileAndRequeuesOthers ==
    [][SweepRequeuesWithMissingFile =>
         tasks' = tasks (+) requeued_tasks(unprocessed_chunks(chunks))]_vars

\* the standard feedback types: every type but feature_suggestion
StandardTypes == FeedbackTypes \ {"feature_suggestion"}

\* the number of Feedback rows of the meeting with the given type
FeedbackCount(meeting_id, feedback_type) ==
    BagCardinality([row \in {r \in BagToSet(feedback) :
                                r.meeting_id = meeting_id /\ r.feedback_type = feedback_type}
                      |-> CopiesIn(row, feedback)])

=============================================================================
